---- MODULE Spec2Model ----
(***************************************************************************)
(* Model of the food-scanner product lookup component                      *)
(* (src/components/OpenFoodFactsSearch.tsx).                               *)
(*                                                                         *)
(* Encoding.  A JavaScript string is a sequence of one-character strings,  *)
(* so that trim, toLowerCase, toUpperCase, split and includes are computed *)
(* and not assumed.  An optional value (x?: T, T | null) is the empty      *)
(* sequence None or the one-element sequence Some(v).  A user-visible      *)
(* message is a record [msg, arg]; Null is the null message.               *)
(*                                                                         *)
(* Scheduling.  State updates made by one callback are committed together  *)
(* (batched), and the effect that depends on `product` runs right after    *)
(* the commit that changed `product`, before any other callback: RunEffect *)
(* is the only enabled action while product # effectDep.                   *)
(***************************************************************************)
EXTENDS FiniteSets, Integers, Sequences, TLC

----------------------------------------------------------------------------
(* Bounds of the model *)

MaxLookups == 2

----------------------------------------------------------------------------
(* Optional values *)

None == <<>>

Some(v) == <<v>>

IsSome(o) == Len(o) > 0

Val(o) == o[1]

----------------------------------------------------------------------------
(* Strings as sequences of characters *)

LowerChars ==
  <<"a","b","c","d","e","f","g","h","i","j","k","l","m",
    "n","o","p","q","r","s","t","u","v","w","x","y","z">>

UpperChars ==
  <<"A","B","C","D","E","F","G","H","I","J","K","L","M",
    "N","O","P","Q","R","S","T","U","V","W","X","Y","Z">>

LowerChar(c) ==
  IF \E i \in 1..26 : UpperChars[i] = c
    THEN LowerChars[CHOOSE i \in 1..26 : UpperChars[i] = c]
    ELSE c

UpperChar(c) ==
  IF \E i \in 1..26 : LowerChars[i] = c
    THEN UpperChars[CHOOSE i \in 1..26 : LowerChars[i] = c]
    ELSE c

toLowerCase(s) == [i \in 1..Len(s) |-> LowerChar(s[i])]

toUpperCase(s) == [i \in 1..Len(s) |-> UpperChar(s[i])]

IsSpace(c) == c \in {" ", "\t", "\n"}

RECURSIVE trimStart(_)
trimStart(s) ==
  IF s # <<>> /\ IsSpace(Head(s)) THEN trimStart(Tail(s)) ELSE s

RECURSIVE trimEnd(_)
trimEnd(s) ==
  IF s # <<>> /\ IsSpace(s[Len(s)])
    THEN trimEnd(SubSeq(s, 1, Len(s) - 1))
    ELSE s

trim(s) == trimEnd(trimStart(s))

(* s.split(sep) for a one-character separator: "".split(",") is [""] *)
RECURSIVE split(_, _)
split(s, sep) ==
  IF \E i \in 1..Len(s) : s[i] = sep
    THEN LET k == CHOOSE i \in 1..Len(s) :
                    s[i] = sep /\ \A j \in 1..(i - 1) : s[j] # sep
         IN  <<SubSeq(s, 1, k - 1)>> \o split(SubSeq(s, k + 1, Len(s)), sep)
    ELSE <<s>>

(* array.pop() of a non-empty array: its last element *)
pop(a) == a[Len(a)]

(* s.includes(sub) *)
includes(s, sub) ==
  \E i \in 1..(Len(s) - Len(sub) + 1) : SubSeq(s, i, i + Len(sub) - 1) = sub

(* array.includes(v) and array.some(pred) over sequences *)
arrayIncludes(a, v) == \E i \in 1..Len(a) : a[i] = v

RECURSIVE filterNonEmpty(_)
filterNonEmpty(a) ==
  IF a = <<>> THEN <<>>
  ELSE IF Head(a) # <<>> THEN <<Head(a)>> \o filterNonEmpty(Tail(a))
  ELSE filterNonEmpty(Tail(a))

----------------------------------------------------------------------------
(* Constants of the component *)

SWISS_COUNTRY_TAGS ==
  << <<"e","n",":","s","w","i","t","z","e","r","l","a","n","d">>,
     <<"d","e",":","s","c","h","w","e","i","z">>,
     <<"f","r",":","s","u","i","s","s","e">>,
     <<"i","t",":","s","v","i","z","z","e","r","a">> >>

COOP_STORE_TAGS ==
  << <<"c","o","o","p">>,
     <<"c","o","o","p","-","p","r","i","x","-","g","a","r","a","n","t","i","e">>,
     <<"c","o","o","p","-","p","r","o","n","t","o">>,
     <<"c","o","o","p","-","c","i","t","y">>,
     <<"c","o","o","p","-","t","o","-","g","o">>,
     <<"c","o","o","p","-","r","e","s","t","a","u","r","a","n","t">>,
     <<"c","o","o","p","-","v","i","t","a","l","i","t","y">> >>

INVALID_SCORE_VALUES ==
  { <<>>,
    <<"U","N","K","N","O","W","N">>,
    <<"N","O","T","-","A","P","P","L","I","C","A","B","L","E">>,
    <<"N","O","T","_","A","P","P","L","I","C","A","B","L","E">> }

SWITZERLAND == <<"s","w","i","t","z","e","r","l","a","n","d">>

COOP == <<"c","o","o","p">>

PAGE_SIZE == 5

----------------------------------------------------------------------------
(* Pure checks *)

(* Mutant of normalizeGrade: the grade is not trimmed *)
normalizeGrade_untrimmed(grade) ==
  IF IsSome(grade) THEN toUpperCase(Val(grade)) ELSE <<>>

normalizeGrade(grade) ==
  IF IsSome(grade) THEN toUpperCase(trim(Val(grade))) ELSE <<>>

isValidScore(grade) ==
  LET normalized == normalizeGrade(grade)
  IN  Len(normalized) > 0 /\ normalized \notin INVALID_SCORE_VALUES

(* Mutant of normalizedTags: the tags are compared as they are written *)
normalizedTags_asWritten(values) ==
  IF IsSome(values) THEN Val(values) ELSE <<>>

normalizedTags(values) ==
  IF IsSome(values)
    THEN [i \in 1..Len(Val(values)) |-> toLowerCase(Val(values)[i])]
    ELSE <<>>

isDistributedInSwitzerland(item) ==
  LET countries == normalizedTags(item.countries_tags)
      places == normalizedTags(item.purchase_places_tags)
      countryMatches ==
        \E i \in 1..Len(countries) :
          arrayIncludes(SWISS_COUNTRY_TAGS, countries[i])
      purchaseMatches ==
        \E i \in 1..Len(places) : places[i] = SWITZERLAND
  IN  countryMatches \/ purchaseMatches

(* Mutant of isAvailableAtCoop: the free-text store field is not consulted *)
isAvailableAtCoop_tagsOnly(item) ==
  /\ IsSome(item.stores_tags)
  /\ \E i \in 1..Len(Val(item.stores_tags)) :
       LET normalizedTag == toLowerCase(Val(item.stores_tags)[i])
           cleanTag == pop(split(normalizedTag, ":"))
       IN  arrayIncludes(COOP_STORE_TAGS, cleanTag)

isAvailableAtCoop(item) ==
  LET tagMatches ==
        /\ IsSome(item.stores_tags)
        /\ \E i \in 1..Len(Val(item.stores_tags)) :
             LET normalizedTag == toLowerCase(Val(item.stores_tags)[i])
                 cleanTag == pop(split(normalizedTag, ":"))
             IN  arrayIncludes(COOP_STORE_TAGS, cleanTag)
      stores ==
        IF IsSome(item.stores) THEN toLowerCase(Val(item.stores)) ELSE <<>>
      parts == split(stores, ",")
      normalizedNames ==
        filterNonEmpty([i \in 1..Len(parts) |-> trim(parts[i])])
  IN  IF tagMatches THEN TRUE
      ELSE IF stores = <<>> THEN FALSE
      ELSE \E i \in 1..Len(normalizedNames) :
             includes(normalizedNames[i], COOP)

----------------------------------------------------------------------------
(* User-visible messages *)

Null == [msg |-> "null", arg |-> <<>>]

MSG_INVALID_CODE ==
  [msg |-> "Bitte geben Sie eine gueltige Artikelnummer ein.", arg |-> <<>>]

MSG_API_ERROR ==
  [msg |-> "Fehler bei der Kommunikation mit der Open Food Facts API.",
   arg |-> <<>>]

MSG_NOT_FOUND(trimmed) ==
  [msg |-> "Kein Produkt mit der Artikelnummer gefunden.", arg |-> trimmed]

MSG_NO_CATEGORY ==
  [msg |-> "Fuer dieses Produkt fehlen Kategorien-Tags.", arg |-> <<>>]

MSG_HEALTHY_FAILED ==
  [msg |-> "Fehler beim Laden gesunder Alternativen. Bitte erneut versuchen.",
   arg |-> <<>>]

MSG_SUSTAINABLE_FAILED ==
  [msg |->
     "Fehler beim Laden nachhaltiger Alternativen. Bitte erneut versuchen.",
   arg |-> <<>>]

MSG_ALTERNATIVES_FAILED ==
  [msg |->
     "Alternativen konnten nicht geladen werden. Bitte spaeter erneut versuchen.",
   arg |-> <<>>]

----------------------------------------------------------------------------
(* Inputs: what the user types or scans, and what the product database     *)
(* answers.  The database is external: any answer can follow any request.  *)

CodeInputs ==
  { <<" ">>, <<" ","1">> }

ScanInputs ==
  { <<" ">>, <<"2"," ">> }

TagA == <<"e","n",":","a">>

TagB == <<"e","n",":","b">>

(* Product records of lookup responses (fields the logic consumes) *)
Products ==
  { [code |-> <<"1">>, categories_tags |-> Some(<<TagA, TagB>>)],
    [code |-> <<"2">>, categories_tags |-> Some(<<TagB>>)],
    [code |-> <<"3">>, categories_tags |-> None],
    [code |-> <<"3">>, categories_tags |-> Some(<<>>)],
    [code |-> <<"3">>, categories_tags |-> Some(<<TagA, <<>> >>)] }

(* A lookup either throws or resolves to {error?, data?: {status?, product?}} *)
LookupResponses ==
  { [throws |-> TRUE, error |-> FALSE, data |-> None] }
  \cup { [throws |-> FALSE, error |-> TRUE, data |-> None] }
  \cup { [throws |-> FALSE, error |-> FALSE, data |-> None] }
  \cup { [throws |-> FALSE, error |-> FALSE,
          data |-> Some([status |-> Some(1), product |-> None])] }
  \cup { [throws |-> FALSE, error |-> FALSE,
          data |-> Some([status |-> Some(0), product |-> Some(p)])] :
           p \in {q \in Products : q.code = <<"1">>} }
  \cup { [throws |-> FALSE, error |-> FALSE,
          data |-> Some([status |-> None, product |-> Some(p)])] :
           p \in {q \in Products : q.code = <<"2">>} }
  \cup { [throws |-> FALSE, error |-> FALSE,
          data |-> Some([status |-> Some(1), product |-> Some(p)])] :
           p \in Products }

Item1 ==
  [code |-> <<"1">>,
   countries_tags |-> Some(<< SWISS_COUNTRY_TAGS[1] >>),
   purchase_places_tags |-> None,
   stores_tags |-> Some(<< <<"c","h",":","C","o","o","p","-","p","r","o","n","t","o">> >>),
   stores |-> None,
   nutrition_grade_fr |-> Some(<<"a">>),
   ecoscore_grade |-> Some(<<" ","b"," ">>)]

Item2 ==
  [code |-> <<"2">>,
   countries_tags |-> Some(<< <<"e","n",":","f","r","a","n","c","e">> >>),
   purchase_places_tags |-> Some(<< <<"S","w","i","t","z","e","r","l","a","n","d">> >>),
   stores_tags |-> Some(<<>>),
   stores |-> Some(<<"M","a","n","o","r",","," ","C","o","o","p"," ","C","i","t","y">>),
   nutrition_grade_fr |-> Some(<<"B">>),
   ecoscore_grade |-> Some(<<"u","n","k","n","o","w","n">>)]

Item3 ==
  [code |-> <<"3">>,
   countries_tags |-> Some(<< <<"e","n",":","f","r","a","n","c","e">> >>),
   purchase_places_tags |-> None,
   stores_tags |-> Some(<< <<"c","o","o","p">> >>),
   stores |-> None,
   nutrition_grade_fr |-> Some(<<"a">>),
   ecoscore_grade |-> Some(<<"a">>)]

Item4 ==
  [code |-> <<"4">>,
   countries_tags |-> Some(<< <<"D","E",":","S","c","h","w","e","i","z">> >>),
   purchase_places_tags |-> None,
   stores_tags |-> None,
   stores |-> Some(<<"M","i","g","r","o","s">>),
   nutrition_grade_fr |-> None,
   ecoscore_grade |-> Some(<<"a">>)]

Item5 ==
  [code |-> <<"5">>,
   countries_tags |-> Some(<< SWISS_COUNTRY_TAGS[3] >>),
   purchase_places_tags |-> None,
   stores_tags |-> Some(<< <<"m","i","g","r","o","s">>, <<"c","o","o","p">> >>),
   stores |-> None,
   nutrition_grade_fr |-> Some(<<"N","o","t","-","A","p","p","l","i","c","a","b","l","e">>),
   ecoscore_grade |-> Some(<<"c">>)]

Item6 ==
  [code |-> <<"6">>,
   countries_tags |-> Some(<< SWISS_COUNTRY_TAGS[2] >>),
   purchase_places_tags |-> None,
   stores_tags |-> Some(<< <<"c","o","o","p">> >>),
   stores |-> None,
   nutrition_grade_fr |-> Some(<<"c">>),
   ecoscore_grade |-> Some(<<"n","o","t","_","a","p","p","l","i","c","a","b","l","e">>)]

ResultLists ==
  { <<Item1, Item2, Item6, Item5>>,
    <<Item6, Item4, Item3, Item2, Item1>> }

Items == {Item1, Item2, Item3, Item4, Item5, Item6}

(* The three checks of every catalogue item, evaluated once per item *)
ItemChecks ==
  [item \in Items |->
     [switzerland |-> isDistributedInSwitzerland(item),
      coop |-> isAvailableAtCoop(item),
      nutrition |-> isValidScore(item.nutrition_grade_fr),
      eco |-> isValidScore(item.ecoscore_grade)]]

(* A search either throws or resolves to {error?, data?: {products?}} *)
SearchResponses ==
  { [throws |-> TRUE, error |-> FALSE, data |-> None] }
  \cup { [throws |-> FALSE, error |-> TRUE, data |-> None] }
  \cup { [throws |-> FALSE, error |-> FALSE, data |-> None] }
  \cup { [throws |-> FALSE, error |-> FALSE,
          data |-> Some([products |-> Some(l)])] : l \in ResultLists }

----------------------------------------------------------------------------
(* State of the OpenFoodFactsSearch component *)

VARIABLES
  barcode,                  \* useState("")
  product,                  \* useState(null): None or Some(product record)
  loading,                  \* useState(false)
  error,                    \* useState(null)
  lastScannedCode,          \* useState(null): None or Some(code)
  healthyAlternatives,      \* useState([])
  sustainableAlternatives,  \* useState([])
  healthyLoading,           \* useState(false)
  sustainableLoading,       \* useState(false)
  healthyError,             \* useState(null)
  sustainableError,         \* useState(null)
  lookups,                  \* getProductV2 requests awaiting their response
  nextLookup,               \* number of the next lookup request
  fetches,                  \* fetchAlternatives calls awaiting Promise.all
  nextFetch,                \* number of the next pair of search queries
  effectDep,                \* the `product` the effect last ran for
  supersededSettled,        \* history: a superseded fetch has settled
  alternativesFor           \* history: product whose fetch last wrote the lists

primaryVars == <<barcode, product, loading, error, lastScannedCode>>

suggestionVars ==
  <<healthyAlternatives, sustainableAlternatives, healthyLoading,
    sustainableLoading, healthyError, sustainableError>>

searchVars ==
  <<barcode, product, loading, error, lastScannedCode,
    healthyAlternatives, sustainableAlternatives, healthyLoading,
    sustainableLoading, healthyError, sustainableError,
    lookups, nextLookup, fetches, nextFetch, effectDep, supersededSettled,
    alternativesFor>>

SearchInit ==
  /\ barcode = <<>>
  /\ product = None
  /\ loading = FALSE
  /\ error = Null
  /\ lastScannedCode = None
  /\ healthyAlternatives = <<>>
  /\ sustainableAlternatives = <<>>
  /\ healthyLoading = FALSE
  /\ sustainableLoading = FALSE
  /\ healthyError = Null
  /\ sustainableError = Null
  /\ lookups = {}
  /\ nextLookup = 1
  /\ fetches = {}
  /\ nextFetch = 1
  /\ effectDep = None
  /\ supersededSettled = FALSE
  /\ alternativesFor = None

(* State of the BarcodeScanner component and of the reader it drives *)
VARIABLES
  videoRef,                 \* the video element is attached (component mounted)
  active,                   \* the `active` flag of the device-listing effect
  devicesPending,           \* listVideoInputDevices has not settled yet
  cameras,                  \* useState: the camera options
  selectedDeviceId,         \* useState: optional device id
  isScanning,               \* useState
  scannerError,             \* useState `error` of the scanner
  sessions,                 \* decodeFromVideoDevice calls made on the reader
  nextSession,              \* number of the next decodeFromVideoDevice call
  scanned,                  \* the onScan calls made so far, in order
  lastDecode,               \* history: arguments of the last decode callback
  released                  \* history: stop or teardown since the last start

scannerVars ==
  <<videoRef, active, devicesPending, cameras, selectedDeviceId, isScanning,
    scannerError, sessions, nextSession, scanned, lastDecode, released>>

NoDecode == [result |-> None, err |-> "none"]

ScannerInit ==
  /\ videoRef = TRUE
  /\ active = TRUE
  /\ devicesPending = TRUE
  /\ cameras = <<>>
  /\ selectedDeviceId = None
  /\ isScanning = FALSE
  /\ scannerError = Null
  /\ sessions = {}
  /\ nextSession = 1
  /\ scanned = <<>>
  /\ lastDecode = NoDecode
  /\ released = FALSE

(* A pure check applied to one input *)
VARIABLES
  checkInput,               \* the argument: a grade or an item
  checkResult               \* the value the check returned, once applied

checkVars == <<checkInput, checkResult>>

NoItem ==
  [ countries_tags |-> None, purchase_places_tags |-> None,
    stores_tags |-> None, stores |-> None ]

NoCheck == [kind |-> "none", grade |-> None, item |-> NoItem]

ChecksIdle ==
  /\ checkInput = NoCheck
  /\ checkResult = None

vars == <<searchVars, scannerVars, checkVars>>

Init == SearchInit /\ ScannerInit /\ ChecksIdle

(* The effect of the last commit has run: callbacks may be delivered *)
Settled == product = effectDep

----------------------------------------------------------------------------
(* performLookup: the part that runs before the request is awaited *)

(* Mutant of performLookup: the alternatives of the previous product are  *)
(* not discarded when a lookup starts                                      *)
performLookup_keepsAlternatives(code) ==
  LET trimmed == trim(code)
  IN  IF trimmed = <<>>
        THEN /\ error' = MSG_INVALID_CODE
             /\ product' = None
             /\ UNCHANGED <<loading, suggestionVars, lookups, nextLookup>>
        ELSE /\ nextLookup <= MaxLookups
             /\ loading' = TRUE
             /\ error' = Null
             /\ product' = None
             /\ healthyError' = Null
             /\ sustainableError' = Null
             /\ UNCHANGED <<healthyAlternatives, sustainableAlternatives,
                            healthyLoading, sustainableLoading>>
             /\ lookups' = lookups \cup {[id |-> nextLookup, trimmed |-> trimmed]}
             /\ nextLookup' = nextLookup + 1

(* Mutant of performLookup: tests the untrimmed code for emptiness *)
performLookup_untrimmed(code) ==
  LET trimmed == trim(code)
  IN  IF code = <<>>
        THEN /\ error' = MSG_INVALID_CODE
             /\ product' = None
             /\ UNCHANGED <<loading, suggestionVars, lookups, nextLookup>>
        ELSE /\ nextLookup <= MaxLookups
             /\ loading' = TRUE
             /\ error' = Null
             /\ product' = None
             /\ healthyAlternatives' = <<>>
             /\ sustainableAlternatives' = <<>>
             /\ healthyError' = Null
             /\ sustainableError' = Null
             /\ UNCHANGED <<healthyLoading, sustainableLoading>>
             /\ lookups' = lookups \cup {[id |-> nextLookup, trimmed |-> trimmed]}
             /\ nextLookup' = nextLookup + 1

performLookup(code) ==
  LET trimmed == trim(code)
  IN  IF trimmed = <<>>
        THEN /\ error' = MSG_INVALID_CODE
             /\ product' = None
             /\ UNCHANGED <<loading, suggestionVars, lookups, nextLookup>>
        ELSE /\ nextLookup <= MaxLookups
             /\ loading' = TRUE
             /\ error' = Null
             /\ product' = None
             /\ healthyAlternatives' = <<>>
             /\ sustainableAlternatives' = <<>>
             /\ healthyError' = Null
             /\ sustainableError' = Null
             /\ UNCHANGED <<healthyLoading, sustainableLoading>>
             /\ lookups' = lookups \cup {[id |-> nextLookup, trimmed |-> trimmed]}
             /\ nextLookup' = nextLookup + 1

(* onChange of the input field, which is disabled while loading *)
SetBarcode(value) ==
  /\ Settled
  /\ ~loading
  /\ barcode' = value
  /\ UNCHANGED <<product, loading, error, lastScannedCode, suggestionVars,
                 lookups, nextLookup, fetches, nextFetch, effectDep,
                 supersededSettled, alternativesFor>>

(* onSubmit of the form, whose button is disabled while loading *)
fetchProduct ==
  /\ Settled
  /\ ~loading
  /\ performLookup(barcode)
  /\ UNCHANGED <<barcode, lastScannedCode, fetches, nextFetch, effectDep,
                 supersededSettled, alternativesFor>>

(* onScan of the scanner, which is not disabled while loading *)
handleScan(code) ==
  LET trimmed == trim(code)
  IN  /\ Settled
      /\ IF trimmed = <<>>
           THEN UNCHANGED searchVars
           ELSE /\ lastScannedCode' = Some(trimmed)
                /\ barcode' = trimmed
                /\ performLookup(trimmed)
                /\ UNCHANGED <<fetches, nextFetch, effectDep,
                               supersededSettled, alternativesFor>>

----------------------------------------------------------------------------
(* performLookup: the part that runs when getProductV2 settles *)

(* data?.product && (data.status === 1 || data.status === undefined) *)
hasUsableProduct(data) ==
  /\ IsSome(data)
  /\ IsSome(Val(data).product)
  /\ (Val(data).status = Some(1) \/ Val(data).status = None)

(* The response's product object; obj is its identity as an object *)
responseProduct(l, data) ==
  [code |-> Val(Val(data).product).code,
   categories_tags |-> Val(Val(data).product).categories_tags,
   obj |-> l.id]

lookupSettled(l, resp) ==
  /\ Settled
  /\ l \in lookups
  /\ lookups' = lookups \ {l}
  /\ IF resp.throws \/ resp.error
       THEN /\ error' = MSG_API_ERROR
            /\ UNCHANGED <<product, barcode>>
       ELSE IF hasUsableProduct(resp.data)
         THEN /\ product' = Some(responseProduct(l, resp.data))
              /\ barcode' = <<>>
              /\ UNCHANGED error
         ELSE /\ error' = MSG_NOT_FOUND(l.trimmed)
              /\ UNCHANGED <<product, barcode>>
  /\ loading' = FALSE
  /\ UNCHANGED <<lastScannedCode, suggestionVars, nextLookup, fetches,
                 nextFetch, effectDep, supersededSettled, alternativesFor>>

----------------------------------------------------------------------------
(* The effect on [client, product] *)

(* array?.[i], zero-based in the source, one-based here *)
at(a, i) ==
  IF IsSome(a) /\ i >= 1 /\ i <= Len(Val(a)) THEN Some(Val(a)[i]) ELSE None

(* Mutant of categoryTagOf: the first tag of the list is taken *)
categoryTagOf_first(p) == at(p.categories_tags, 1)

(* Mutant of categoryTagOf: || in place of ??, so that an empty last tag   *)
(* falls back to the first one                                             *)
categoryTagOf_or(p) ==
  LET last == IF IsSome(p.categories_tags)
                THEN at(p.categories_tags, Len(Val(p.categories_tags)))
                ELSE None
  IN  IF IsSome(last) /\ Val(last) # <<>>
        THEN last
        ELSE at(p.categories_tags, 1)

(* categories_tags?.[categories_tags.length - 1] ?? categories_tags?.[0] *)
categoryTagOf(p) ==
  LET last == IF IsSome(p.categories_tags)
                THEN at(p.categories_tags, Len(Val(p.categories_tags)))
                ELSE None
  IN  IF IsSome(last) THEN last ELSE at(p.categories_tags, 1)

(* !categoryTag is false: the tag is defined and not the empty string *)
isTruthy(tag) == IsSome(tag) /\ Val(tag) # <<>>

(* The cleanup of the previous run of the effect: isActive = false *)
cleanup(fs) == {[f EXCEPT !.isActive = FALSE] : f \in fs}

baseQuery(categoryTag) ==
  [categories_tags |-> categoryTag,
   countries_tags |-> SWISS_COUNTRY_TAGS,
   stores_tags |-> COOP_STORE_TAGS,
   page_size |-> PAGE_SIZE]

(* Mutant of effectNoProduct: the loading flags are not reset *)
effectNoProduct_keepsLoading ==
  /\ healthyAlternatives' = <<>>
  /\ sustainableAlternatives' = <<>>
  /\ healthyError' = Null
  /\ sustainableError' = Null
  /\ UNCHANGED <<healthyLoading, sustainableLoading>>
  /\ fetches' = cleanup(fetches)
  /\ UNCHANGED nextFetch

(* if (!product) { ... return; } *)
effectNoProduct ==
  /\ healthyAlternatives' = <<>>
  /\ sustainableAlternatives' = <<>>
  /\ healthyError' = Null
  /\ sustainableError' = Null
  /\ healthyLoading' = FALSE
  /\ sustainableLoading' = FALSE
  /\ fetches' = cleanup(fetches)
  /\ UNCHANGED nextFetch

(* if (!categoryTag) { ... return; } *)
effectNoCategory ==
  /\ healthyAlternatives' = <<>>
  /\ sustainableAlternatives' = <<>>
  /\ healthyError' = MSG_NO_CATEGORY
  /\ sustainableError' = MSG_NO_CATEGORY
  /\ healthyLoading' = FALSE
  /\ sustainableLoading' = FALSE
  /\ fetches' = cleanup(fetches)
  /\ UNCHANGED nextFetch

(* Mutant of effectFetch: the list errors are not reset *)
effectFetch_keepsErrors(p, categoryTag) ==
  /\ healthyLoading' = TRUE
  /\ sustainableLoading' = TRUE
  /\ UNCHANGED <<healthyError, sustainableError>>
  /\ UNCHANGED <<healthyAlternatives, sustainableAlternatives>>
  /\ fetches' = cleanup(fetches) \cup
       {[id |-> nextFetch,
         product |-> p,
         healthyQuery |->
           [base |-> baseQuery(categoryTag),
            nutrition_grades_tags |-> "a|b", sort_by |-> "nutriscore_score"],
         sustainableQuery |->
           [base |-> baseQuery(categoryTag),
            ecoscore_grade |-> "a|b", sort_by |-> "ecoscore_score"],
         isActive |-> TRUE]}
  /\ nextFetch' = nextFetch + 1

(* The rest of the effect: the two queries are issued by fetchAlternatives *)
effectFetch(p, categoryTag) ==
  /\ healthyLoading' = TRUE
  /\ sustainableLoading' = TRUE
  /\ healthyError' = Null
  /\ sustainableError' = Null
  /\ UNCHANGED <<healthyAlternatives, sustainableAlternatives>>
  /\ fetches' = cleanup(fetches) \cup
       {[id |-> nextFetch,
         product |-> p,
         healthyQuery |->
           [base |-> baseQuery(categoryTag),
            nutrition_grades_tags |-> "a|b", sort_by |-> "nutriscore_score"],
         sustainableQuery |->
           [base |-> baseQuery(categoryTag),
            ecoscore_grade |-> "a|b", sort_by |-> "ecoscore_score"],
         isActive |-> TRUE]}
  /\ nextFetch' = nextFetch + 1

RunEffect ==
  /\ product # effectDep
  /\ effectDep' = product
  /\ IF ~IsSome(product)
       THEN effectNoProduct
       ELSE IF ~isTruthy(categoryTagOf(Val(product)))
         THEN effectNoCategory
         ELSE effectFetch(Val(product), Val(categoryTagOf(Val(product))))
  /\ UNCHANGED <<primaryVars, lookups, nextLookup, supersededSettled,
                 alternativesFor>>

----------------------------------------------------------------------------
(* fetchAlternatives: the part that runs when Promise.all settles *)

(* Mutant of stillActive: the cancellation flag is not consulted *)
stillActive_ignored(f) == TRUE

(* if (!isActive) return; *)
stillActive(f) == f.isActive

(* Mutant of keepsAlternative: the original product is not filtered out *)
keepsAlternative_noCode(item, p, grade) ==
  /\ ItemChecks[item].switzerland
  /\ ItemChecks[item].coop
  /\ ItemChecks[item][grade]

(* The predicate of products.filter(...) for one list *)
keepsAlternative(item, p, grade) ==
  /\ item.code # p.code
  /\ ItemChecks[item].switzerland
  /\ ItemChecks[item].coop
  /\ ItemChecks[item][grade]

(* (data?.products ?? []) *)
productsOf(result) ==
  IF IsSome(result.data) /\ IsSome(Val(result.data).products)
    THEN Val(Val(result.data).products)
    ELSE <<>>

healthyFilter(products, p) ==
  SelectSeq(products,
            LAMBDA item : keepsAlternative(item, p, "nutrition"))

sustainableFilter(products, p) ==
  SelectSeq(products,
            LAMBDA item : keepsAlternative(item, p, "eco"))

(* if (healthyResult.error) ... else ... *)
healthyWrites(f, healthyResult) ==
  IF healthyResult.error
    THEN /\ healthyAlternatives' = <<>>
         /\ healthyError' = MSG_HEALTHY_FAILED
    ELSE /\ healthyAlternatives' =
              healthyFilter(productsOf(healthyResult), f.product)
         /\ UNCHANGED healthyError

(* Mutant of sustainableWrites: the test of the error field is inverted *)
sustainableWrites_inverted(f, sustainableResult) ==
  IF ~sustainableResult.error
    THEN /\ sustainableAlternatives' = <<>>
         /\ sustainableError' = MSG_SUSTAINABLE_FAILED
    ELSE /\ sustainableAlternatives' =
              sustainableFilter(productsOf(sustainableResult), f.product)
         /\ UNCHANGED sustainableError

(* if (sustainableResult.error) ... else ... *)
sustainableWrites(f, sustainableResult) ==
  IF sustainableResult.error
    THEN /\ sustainableAlternatives' = <<>>
         /\ sustainableError' = MSG_SUSTAINABLE_FAILED
    ELSE /\ sustainableAlternatives' =
              sustainableFilter(productsOf(sustainableResult), f.product)
         /\ UNCHANGED sustainableError

(* Mutant of catchWrites: the sustainable list keeps its state *)
catchWrites_healthyOnly ==
  /\ healthyAlternatives' = <<>>
  /\ healthyError' = MSG_ALTERNATIVES_FAILED
  /\ UNCHANGED <<sustainableAlternatives, sustainableError>>

(* catch { ... } *)
catchWrites ==
  /\ healthyAlternatives' = <<>>
  /\ sustainableAlternatives' = <<>>
  /\ healthyError' = MSG_ALTERNATIVES_FAILED
  /\ sustainableError' = MSG_ALTERNATIVES_FAILED

(* Mutant of finallyWrites: the loading flags are left as they are *)
finallyWrites_none == UNCHANGED <<healthyLoading, sustainableLoading>>

(* Mutant of finallyWrites: only the healthy flag is reset *)
finallyWrites_healthyOnly ==
  /\ healthyLoading' = FALSE
  /\ UNCHANGED sustainableLoading

(* finally { if (isActive) { ... } } *)
finallyWrites ==
  /\ healthyLoading' = FALSE
  /\ sustainableLoading' = FALSE

(* Mutant of fetchFrame: the continuation also resets the primary error *)
fetchFrame_clearsError ==
  /\ error' = Null
  /\ UNCHANGED <<barcode, product, loading, lastScannedCode, lookups,
                 nextLookup, nextFetch, effectDep>>

(* fetchAlternatives writes suggestion state only *)
fetchFrame == UNCHANGED <<primaryVars, lookups, nextLookup, nextFetch, effectDep>>

(* Promise.all rejects as soon as one of the two searches throws *)
fetchSettled(f, healthyResult, sustainableResult) ==
  /\ Settled
  /\ f \in fetches
  /\ fetches' = fetches \ {f}
  /\ supersededSettled' = (supersededSettled \/ ~f.isActive)
  /\ alternativesFor' = IF f.isActive THEN Some(f.product.obj)
                        ELSE alternativesFor
  /\ IF ~stillActive(f)
       THEN UNCHANGED suggestionVars
       ELSE IF healthyResult.throws \/ sustainableResult.throws
         THEN catchWrites /\ finallyWrites
         ELSE /\ healthyWrites(f, healthyResult)
              /\ sustainableWrites(f, sustainableResult)
              /\ finallyWrites
  /\ fetchFrame

----------------------------------------------------------------------------
(* The component as a state machine *)

Next ==
  \/ (\E value \in CodeInputs : SetBarcode(value)) /\ UNCHANGED <<scannerVars, checkVars>>
  \/ fetchProduct /\ UNCHANGED <<scannerVars, checkVars>>
  \/ (\E code \in ScanInputs : handleScan(code)) /\ UNCHANGED <<scannerVars, checkVars>>
  \/ (\E l \in lookups, resp \in LookupResponses : lookupSettled(l, resp))
       /\ UNCHANGED <<scannerVars, checkVars>>
  \/ RunEffect /\ UNCHANGED <<scannerVars, checkVars>>
  \/ (\E f \in fetches, h \in SearchResponses, s \in SearchResponses :
         fetchSettled(f, h, s))
       /\ UNCHANGED <<scannerVars, checkVars>>

Spec == Init /\ [][Next]_vars

(* The request of lookup number id resolves or throws *)
LookupResolves(id) ==
  /\ \E l \in lookups, resp \in LookupResponses :
       l.id = id /\ lookupSettled(l, resp)
  /\ UNCHANGED <<scannerVars, checkVars>>

(* A pending pair of search queries resolves or throws *)
SearchResolves ==
  /\ Settled
  /\ \E f \in fetches :
       /\ fetches' = fetches \ {f}
       /\ \E h \in SearchResponses, s \in SearchResponses :
            fetchSettled(f, h, s)
  /\ UNCHANGED <<scannerVars, checkVars>>

(* React runs the effect of a commit *)
EffectRuns == RunEffect /\ UNCHANGED <<scannerVars, checkVars>>

(* The component when every request to the product database eventually    *)
(* resolves or throws                                                     *)
SpecLookupsResolve ==
  /\ Init
  /\ [][Next]_vars
  /\ WF_vars(EffectRuns)
  /\ \A id \in 1..MaxLookups : WF_vars(LookupResolves(id))

(* The component when search queries eventually resolve or throw: while   *)
(* pairs of queries are pending, one of them resolves.  The pending pairs *)
(* are finitely many, so this follows from every query resolving.         *)
SpecSearchesResolve ==
  /\ Init
  /\ [][Next]_vars
  /\ WF_vars(EffectRuns)
  /\ WF_vars(SearchResolves)

----------------------------------------------------------------------------
(* BarcodeScanner.  The reader is the external decoding library; the model *)
(* keeps one record per decodeFromVideoDevice call.  A session is          *)
(*   "pending"    while the camera has been requested but not obtained,    *)
(*   "active"     while it holds the camera and decode callbacks may run,  *)
(*   "stopped"    once the reader has released its camera,                 *)
(*   "cancelled"  when its request was abandoned before the camera came;   *)
(* `settled` tells whether the promise of the call has run its .then or    *)
(* .catch callback.  What the library does with a pending request on       *)
(* reset(), and with the streams of earlier calls when a later call        *)
(* obtains the camera, is not fixed by the component: both outcomes are    *)
(* allowed.                                                                *)

MaxSessions == 2

MSG_NO_CAMERA ==
  [msg |-> "Keine Kamera gefunden oder Zugriff verweigert.", arg |-> <<>>]

MSG_SELECT_CAMERA ==
  [msg |-> "Bitte eine Kamera auswählen.", arg |-> <<>>]

MSG_SCAN_FAILED ==
  [msg |-> "Scan fehlgeschlagen. Bitte erneut versuchen.", arg |-> <<>>]

MSG_CAMERA_START_FAILED ==
  [msg |-> "Kamera konnte nicht gestartet werden.", arg |-> <<>>]

(* Devices the browser may list: a labelled one, an unlabelled one, and one *)
(* whose id is empty                                                        *)
Device1 == [deviceId |-> <<"c", "a", "m", "0", "1">>, label |-> <<"F">>]
Device2 == [deviceId |-> <<"c", "a", "m", "0", "2">>, label |-> <<>>]
Device0 == [deviceId |-> <<>>, label |-> <<>>]

DeviceLists == {<<>>, <<Device1, Device2>>, <<Device0, Device1>>}

(* What a decode callback may be called with: a result with text, a result *)
(* with empty text, a NotFoundException, another exception                 *)
DecodeOutcomes ==
  { [result |-> Some(<<"2", " ">>), err |-> "none"],
    [result |-> Some(<<>>), err |-> "none"],
    [result |-> None, err |-> "NotFoundException"],
    [result |-> None, err |-> "ChecksumException"] }

(* String.prototype.slice(-n) *)
sliceLast(str, n) ==
  IF Len(str) <= n THEN str ELSE SubSeq(str, Len(str) - n + 1, Len(str))

(* devices.map(...): label, or "Kamera " and the last four characters of   *)
(* the id when the label is empty                                          *)
cameraOptions(devices) ==
  [i \in 1..Len(devices) |->
     [ label |-> IF devices[i].label # <<>>
                   THEN devices[i].label
                   ELSE <<"K", "a", "m", "e", "r", "a", " ">>
                          \o sliceLast(devices[i].deviceId, 4),
       deviceId |-> devices[i].deviceId ]]

(* A state setter: React drops updates of an unmounted component *)
setState(current, value) == IF videoRef THEN value ELSE current

(* reader.reset(): the sessions holding the camera release it; a pending   *)
(* request is abandoned or left running                                    *)
reset(all, keepsPending) ==
  { IF s.phase = "active" THEN [s EXCEPT !.phase = "stopped"]
    ELSE IF s.phase = "pending" /\ ~keepsPending
      THEN [s EXCEPT !.phase = "cancelled"]
    ELSE s : s \in all }

(* listVideoInputDevices().then(...) *)
devicesListed(devices) ==
  /\ devicesPending
  /\ devicesPending' = FALSE
  /\ IF ~active
       THEN UNCHANGED <<cameras, selectedDeviceId>>
       ELSE LET options == cameraOptions(devices)
            IN  /\ cameras' = setState(cameras, options)
                /\ selectedDeviceId' =
                     IF Len(options) > 0
                       THEN setState(selectedDeviceId, Some(options[1].deviceId))
                       ELSE selectedDeviceId
  /\ UNCHANGED <<videoRef, active, isScanning, scannerError, sessions,
                 nextSession, scanned, lastDecode, released>>

(* listVideoInputDevices().catch(...) *)
devicesFailed ==
  /\ devicesPending
  /\ devicesPending' = FALSE
  /\ scannerError' = IF ~active THEN scannerError
                     ELSE setState(scannerError, MSG_NO_CAMERA)
  /\ UNCHANGED <<videoRef, active, cameras, selectedDeviceId, isScanning,
                 sessions, nextSession, scanned, lastDecode, released>>

(* The cleanup of the device-listing effect, run when the component is     *)
(* torn down                                                               *)
unmount ==
  /\ videoRef
  /\ videoRef' = FALSE
  /\ active' = FALSE
  /\ \E keepsPending \in BOOLEAN : sessions' = reset(sessions, keepsPending)
  /\ released' = TRUE
  /\ UNCHANGED <<devicesPending, cameras, selectedDeviceId, isScanning,
                 scannerError, nextSession, scanned, lastDecode>>

(* onChange of the camera select, which is disabled while isScanning *)
selectCamera(value) ==
  /\ videoRef
  /\ ~isScanning
  /\ \E i \in 1..Len(cameras) : cameras[i].deviceId = value
  /\ selectedDeviceId' = IF value # <<>> THEN Some(value) ELSE None
  /\ UNCHANGED <<videoRef, active, devicesPending, cameras, isScanning,
                 scannerError, sessions, nextSession, scanned, lastDecode,
                 released>>

(* stopScanning: reader.reset(); setIsScanning(false) *)
stopScanning ==
  /\ \E keepsPending \in BOOLEAN : sessions' = reset(sessions, keepsPending)
  /\ isScanning' = setState(isScanning, FALSE)

(* Click on Stop, which is disabled unless isScanning *)
stopClicked ==
  /\ videoRef
  /\ isScanning
  /\ stopScanning
  /\ released' = TRUE
  /\ UNCHANGED <<videoRef, active, devicesPending, cameras, selectedDeviceId,
                 scannerError, nextSession, scanned, lastDecode>>

(* Click on Start, which is disabled while isScanning, without cameras and *)
(* without a selected device: startScanning up to the call of              *)
(* decodeFromVideoDevice                                                   *)
startScanning ==
  /\ videoRef
  /\ ~isScanning /\ Len(cameras) # 0 /\ isTruthy(selectedDeviceId)
  /\ IF ~videoRef \/ isScanning
       THEN UNCHANGED <<scannerError, sessions, nextSession, released>>
     ELSE IF ~isTruthy(selectedDeviceId)
       THEN /\ scannerError' = MSG_SELECT_CAMERA
            /\ UNCHANGED <<sessions, nextSession, released>>
     ELSE /\ nextSession <= MaxSessions
          /\ scannerError' = Null
          /\ sessions' = sessions \cup
               {[ id |-> nextSession, deviceId |-> Val(selectedDeviceId),
                  phase |-> "pending", settled |-> FALSE ]}
          /\ nextSession' = nextSession + 1
          /\ released' = FALSE
  /\ UNCHANGED <<videoRef, active, devicesPending, cameras, selectedDeviceId,
                 isScanning, scanned, lastDecode>>

(* The reader obtains the camera for a pending call and starts decoding;   *)
(* it may release the streams of earlier calls as it does so               *)
cameraObtained(s) ==
  /\ s.phase = "pending"
  /\ \E exclusive \in BOOLEAN :
       sessions' =
         { IF t = s THEN [t EXCEPT !.phase = "active"]
           ELSE IF exclusive /\ t.phase = "active"
             THEN [t EXCEPT !.phase = "stopped"]
           ELSE t : t \in sessions }
  /\ UNCHANGED <<videoRef, active, devicesPending, cameras, selectedDeviceId,
                 isScanning, scannerError, nextSession, scanned, lastDecode,
                 released>>

(* .then(() => setIsScanning(true)): the promise of a call resolves once   *)
(* decoding has started                                                    *)
startCompleted(s) ==
  /\ s.phase \in {"active", "stopped"}
  /\ ~s.settled
  /\ sessions' = (sessions \ {s}) \cup {[s EXCEPT !.settled = TRUE]}
  /\ isScanning' = setState(isScanning, TRUE)
  /\ UNCHANGED <<videoRef, active, devicesPending, cameras, selectedDeviceId,
                 scannerError, nextSession, scanned, lastDecode, released>>

(* .catch(...): the promise of a call rejects *)
startFailed(s) ==
  /\ s.phase \in {"pending", "active", "cancelled"}
  /\ ~s.settled
  /\ scannerError' = setState(scannerError, MSG_CAMERA_START_FAILED)
  /\ \E keepsPending \in BOOLEAN :
       sessions' =
         reset((sessions \ {s}) \cup
                 {[s EXCEPT !.settled = TRUE,
                            !.phase = IF s.phase = "active"
                                        THEN "active" ELSE "cancelled"]},
               keepsPending)
  /\ isScanning' = setState(isScanning, FALSE)
  /\ UNCHANGED <<videoRef, active, devicesPending, cameras, selectedDeviceId,
                 nextSession, scanned, lastDecode, released>>

(* Mutant of callbackError: every callback error is reported *)
callbackError_any(current, err) ==
  IF err # "none" THEN MSG_SCAN_FAILED ELSE current

(* err && !(err instanceof NotFoundException): the error the callback     *)
(* leaves in the scanner's state                                           *)
callbackError(current, err) ==
  IF err # "none" /\ err # "NotFoundException"
    THEN MSG_SCAN_FAILED
    ELSE current

(* The callback passed to decodeFromVideoDevice, called by a session that *)
(* is decoding                                                            *)
decodeCallback(s, result, err) ==
  /\ s.phase = "active"
  /\ lastDecode' = [result |-> result, err |-> err]
  /\ IF IsSome(result) /\ Val(result) # <<>>
       THEN /\ scanned' = Append(scanned, [session |-> s.id, text |-> Val(result)])
            /\ stopScanning
       ELSE UNCHANGED <<scanned, sessions, isScanning>>
  /\ scannerError' = setState(scannerError, callbackError(scannerError, err))
  /\ UNCHANGED <<videoRef, active, devicesPending, cameras, selectedDeviceId,
                 nextSession, released>>

ScannerNext ==
  \/ (\E devices \in DeviceLists : devicesListed(devices))
       /\ UNCHANGED <<searchVars, checkVars>>
  \/ devicesFailed /\ UNCHANGED <<searchVars, checkVars>>
  \/ unmount /\ UNCHANGED <<searchVars, checkVars>>
  \/ (\E i \in 1..Len(cameras) : selectCamera(cameras[i].deviceId))
       /\ UNCHANGED <<searchVars, checkVars>>
  \/ startScanning /\ UNCHANGED <<searchVars, checkVars>>
  \/ stopClicked /\ UNCHANGED <<searchVars, checkVars>>
  \/ (\E s \in sessions : cameraObtained(s)) /\ UNCHANGED <<searchVars, checkVars>>
  \/ (\E s \in sessions : startCompleted(s)) /\ UNCHANGED <<searchVars, checkVars>>
  \/ (\E s \in sessions : startFailed(s)) /\ UNCHANGED <<searchVars, checkVars>>
  \/ (\E s \in sessions, o \in DecodeOutcomes :
         decodeCallback(s, o.result, o.err))
       /\ UNCHANGED <<searchVars, checkVars>>

SpecScanner == Init /\ [][ScannerNext]_vars

----------------------------------------------------------------------------
(* The pure checks applied to inputs drawn from bounded sets *)

MaxPad == 1
MaxTags == 2

SeqsUpTo(S, n) == UNION {[1..k -> S] : k \in 0..n}

(* Optional grade strings: words in several spellings, padded on both     *)
(* sides with up to MaxPad whitespace characters, and the absent grade    *)
GradeWords ==
  { <<>>,
    <<"u","n","k","n","o","w","n">>,
    <<"U","N","K","N","O","W","N">>,
    <<"U","n","k","n","o","w","n">>,
    <<"N","o","t","-","A","p","p","l","i","c","a","b","l","e">>,
    <<"N","O","T","_","A","P","P","L","I","C","A","B","L","E">>,
    <<"n","o","t","_","a","p","p","l","i","c","a","b","l","e">>,
    <<"n","o","t"," ","a","p","p","l","i","c","a","b","l","e">>,
    <<"u","n"," ","k","n","o","w","n">>,
    <<"u","n","k","n","o","w","n","s">>,
    <<"a">>,
    <<"E">>,
    <<"-">> }

Pads == SeqsUpTo({" ", "\t"}, MaxPad)

GradeInputs ==
  {None} \cup {Some(l \o w \o r) : l \in Pads, w \in GradeWords, r \in Pads}

(* Optional tag lists of up to MaxTags tags, in every order *)
CountryTagPool ==
  { <<"d","e",":","s","c","h","w","e","i","z">>,
    <<"E","N",":","S","w","i","t","z","e","r","l","a","n","d">>,
    <<"e","n",":","f","r","a","n","c","e">>,
    <<"s","w","i","t","z","e","r","l","a","n","d">> }

PurchasePlaceTagPool ==
  { <<"s","w","i","t","z","e","r","l","a","n","d">>,
    <<"S","w","i","t","z","e","r","l","a","n","d">>,
    <<"e","n",":","s","w","i","t","z","e","r","l","a","n","d">>,
    <<"z","u","r","i","c","h">> }

StoreTagPool ==
  { <<"c","h",":","c","o","o","p","-","p","r","o","n","t","o">>,
    <<"C","O","O","P">>,
    <<"a",":","b",":","c","o","o","p","-","c","i","t","y">>,
    <<"c","o","o","p",":","x">>,
    <<"c","o","o","p",":">>,
    <<"m","i","g","r","o","s">> }

StoresTexts ==
  { None,
    Some(<<>>),
    Some(<<"C","o","o","p",","," ","M","a","n","o","r">>),
    Some(<<"M","i","g","r","o","s">>),
    Some(<<" ",","," ",",">>),
    Some(<<"M","a","n","o","r",","," "," ","m","i","n","i","C","O","O","P"," ">>),
    Some(<<"c","o",",","o","p">>),
    Some(<<"c","o"," ","o","p">>) }

OptionalLists(pool) == {None} \cup {Some(t) : t \in SeqsUpTo(pool, MaxTags)}

CheckInputs ==
  {[kind |-> "grade", grade |-> g, item |-> NoItem] : g \in GradeInputs}
  \cup
  {[kind |-> "switzerland", grade |-> None,
    item |-> [NoItem EXCEPT !.countries_tags = c,
                            !.purchase_places_tags = p]] :
     c \in OptionalLists(CountryTagPool),
     p \in OptionalLists(PurchasePlaceTagPool)}
  \cup
  {[kind |-> "coop", grade |-> None,
    item |-> [NoItem EXCEPT !.stores_tags = t, !.stores = f]] :
     t \in OptionalLists(StoreTagPool), f \in StoresTexts}

ChecksInit ==
  /\ SearchInit
  /\ ScannerInit
  /\ checkInput \in CheckInputs
  /\ checkResult = None

applyIsValidScore ==
  /\ checkInput.kind = "grade"
  /\ checkResult = None
  /\ checkResult' = Some(isValidScore(checkInput.grade))
  /\ UNCHANGED checkInput

applyIsDistributedInSwitzerland ==
  /\ checkInput.kind = "switzerland"
  /\ checkResult = None
  /\ checkResult' = Some(isDistributedInSwitzerland(checkInput.item))
  /\ UNCHANGED checkInput

applyIsAvailableAtCoop ==
  /\ checkInput.kind = "coop"
  /\ checkResult = None
  /\ checkResult' = Some(isAvailableAtCoop(checkInput.item))
  /\ UNCHANGED checkInput

ChecksNext ==
  \/ applyIsValidScore /\ UNCHANGED <<searchVars, scannerVars>>
  \/ applyIsDistributedInSwitzerland /\ UNCHANGED <<searchVars, scannerVars>>
  \/ applyIsAvailableAtCoop /\ UNCHANGED <<searchVars, scannerVars>>

SpecChecks == ChecksInit /\ [][ChecksNext]_vars

----------------------------------------------------------------------------
(* Vocabulary of the properties *)

Cleared ==
  /\ healthyAlternatives = <<>>
  /\ sustainableAlternatives = <<>>
  /\ healthyError = Null
  /\ sustainableError = Null
  /\ ~healthyLoading
  /\ ~sustainableLoading

Codes(list) == {list[i].code : i \in 1..Len(list)}

(* The subsequence of `products`, in order, that the specification keeps   *)
(* as alternatives of the product with code `code`; grade is "nutrition"   *)
(* or "eco"                                                                *)
RECURSIVE Expected(_, _, _)
Expected(products, code, grade) ==
  IF products = <<>> THEN <<>>
  ELSE LET item == Head(products)
           rest == Expected(Tail(products), code, grade)
           ok == /\ item.code # code
                 /\ isDistributedInSwitzerland(item)
                 /\ isAvailableAtCoop(item)
                 /\ isValidScore(IF grade = "nutrition"
                                   THEN item.nutrition_grade_fr
                                   ELSE item.ecoscore_grade)
       IN  IF ok THEN <<item>> \o rest ELSE rest

ProductCodes == {p.code : p \in Products}

(* Expected, tabulated over the response lists and product codes *)
ExpectedFor ==
  [products \in ResultLists \cup {<<>>} |->
     [code \in ProductCodes |->
        [grade \in {"nutrition", "eco"} |-> Expected(products, code, grade)]]]

(* A step in which the pending fetch f settles *)
Settles(f) == f \in fetches /\ fetches' = fetches \ {f}

(* A step in which the pending lookup l settles *)
LookupSettles(l) == l \in lookups /\ lookups' = lookups \ {l}

(* The fetch f was triggered for a product that is no longer displayed, or *)
(* it is not the most recently triggered fetch                             *)
Superseded(f) == product # Some(f.product) \/ f.id # nextFetch - 1

(* The product has no category tag: list missing, empty, or ending in ""   *)
NoCategoryTag(p) ==
  \/ ~IsSome(p.categories_tags)
  \/ Val(p.categories_tags) = <<>>
  \/ Val(p.categories_tags)[Len(Val(p.categories_tags))] = <<>>

Blank(code) == \A i \in 1..Len(code) : IsSpace(code[i])

Resolved == {r \in SearchResponses : ~r.throws}

Succeeded(r) == ~r.throws /\ ~r.error

----------------------------------------------------------------------------
C2_SelfExclusion ==
  (Settled /\ IsSome(product)) =>
    /\ Val(product).code \notin Codes(healthyAlternatives)
    /\ Val(product).code \notin Codes(sustainableAlternatives)

C5_TotalFailure ==
  [][\A f \in fetches :
       (Settles(f) /\ f.isActive) =>
         \A h \in SearchResponses, s \in SearchResponses :
           ((h.throws \/ s.throws) /\ fetchSettled(f, h, s)) =>
             /\ healthyAlternatives' = <<>>
             /\ sustainableAlternatives' = <<>>
             /\ healthyError' = MSG_ALTERNATIVES_FAILED
             /\ sustainableError' = MSG_ALTERNATIVES_FAILED
             /\ ~healthyLoading'
             /\ ~sustainableLoading']_vars

(* The fetch for the displayed product threw *)
C5_Witness ==
  /\ IsSome(product)
  /\ Settled
  /\ healthyError = MSG_ALTERNATIVES_FAILED
  /\ sustainableError = MSG_ALTERNATIVES_FAILED
  /\ ~healthyLoading

(* C6. Whenever the displayed product becomes null, the effect leaves all  *)
(* suggestion state cleared (both lists empty, both errors null, both      *)
(* loading flags false), issues no search query and leaves no fetch        *)
(* active; the state stays cleared while no product is displayed.          *)
C6_ClearedWithoutProduct ==
  /\ []((Settled /\ ~IsSome(product)) =>
          (Cleared /\ \A f \in fetches : ~f.isActive))
  /\ [][(RunEffect /\ ~IsSome(product)) => nextFetch' = nextFetch]_vars

(* The product was cleared while its fetch was in flight *)
C6_Witness ==
  /\ Settled
  /\ ~IsSome(product)
  /\ fetches # {}

(* C7. When the displayed product has no category tag (list missing,       *)
(* empty, or yielding an empty tag), the effect sets the same error on     *)
(* both lists, leaves both lists empty and both loading flags false, and   *)
(* issues no search query.                                                 *)
C7_NoCategory ==
  [][(RunEffect /\ IsSome(product) /\ NoCategoryTag(Val(product))) =>
       /\ healthyError' = MSG_NO_CATEGORY
       /\ sustainableError' = MSG_NO_CATEGORY
       /\ healthyAlternatives' = <<>>
       /\ sustainableAlternatives' = <<>>
       /\ ~healthyLoading'
       /\ ~sustainableLoading'
       /\ nextFetch' = nextFetch
       /\ \A f \in fetches' : ~f.isActive]_vars

(* A product whose category list ends with an empty tag is displayed *)
C7_Witness ==
  /\ Settled
  /\ IsSome(product)
  /\ Val(product).categories_tags = Some(<<TagA, <<>> >>)
  /\ healthyError = MSG_NO_CATEGORY

(* C8. No step of the suggestion pipeline (a run of the effect, a fetch    *)
(* settling with any outcome) changes the primary lookup's product, error, *)
(* loading or barcode state.                                               *)
C8_PrimaryUntouched ==
  [][(RunEffect \/ \E f \in fetches : Settles(f)) =>
       UNCHANGED <<product, error, loading, barcode>>]_vars

(* The product is displayed without error although its fetch threw *)
C8_Witness ==
  /\ IsSome(product)
  /\ error = Null
  /\ ~loading
  /\ healthyError = MSG_ALTERNATIVES_FAILED

(* C9. Successful lookup: when a lookup settles with a response that has   *)
(* no error and a product with status 1 or no status, the displayed        *)
(* product is the response's product, the barcode field is empty, the      *)
(* error is null and loading is false.                                     *)
C9_SuccessfulLookup ==
  [][\A l \in lookups :
       (LookupSettles(l) /\ IsSome(product') /\ Val(product').obj = l.id) =>
         /\ barcode' = <<>>
         /\ error' = Null
         /\ ~loading']_vars

(* C10. Empty input: submitting a code that is empty or only whitespace    *)
(* sets the validation message, leaves the product null, sends no request  *)
(* to the product database and does not set loading to true.               *)
C10_EmptyInput ==
  [][(fetchProduct /\ Blank(barcode)) =>
       /\ error' = MSG_INVALID_CODE
       /\ product' = None
       /\ lookups' = lookups
       /\ nextLookup' = nextLookup
       /\ ~loading']_vars

(* The validation message is shown after a whitespace-only submission *)
C10_Witness ==
  /\ error = MSG_INVALID_CODE
  /\ product = None
  /\ barcode = <<" ">>
  /\ lookups = {}
  /\ nextLookup = 1

----------------------------------------------------------------------------
(* The response carries no error but no usable product: the product is     *)
(* missing, or the status is present and not 1                             *)
NoUsableProduct(resp) ==
  /\ ~resp.throws
  /\ ~resp.error
  /\ \/ ~IsSome(resp.data)
     \/ ~IsSome(Val(resp.data).product)
     \/ (IsSome(Val(resp.data).status) /\ Val(Val(resp.data).status) # 1)

(* A step that starts a lookup: a submission of the form, or a scan that   *)
(* sends a request                                                         *)
LookupStarts == fetchProduct \/ nextLookup' # nextLookup

(* C11. Lookup error categories: a lookup whose request throws or whose    *)
(* response carries an error field ends with the communication-failure     *)
(* message; a lookup whose response carries no error but no usable product *)
(* ends with the not-found message; in both cases the product stays null   *)
(* and no request is sent by the settling lookup.                          *)
C11_ErrorCategories ==
  [][\A l \in lookups :
       LookupSettles(l) =>
         \A resp \in LookupResponses :
           (lookupSettled(l, resp)
              /\ (resp.throws \/ resp.error \/ NoUsableProduct(resp))) =>
             /\ error' = (IF resp.throws \/ resp.error
                            THEN MSG_API_ERROR
                            ELSE MSG_NOT_FOUND(l.trimmed))
             /\ MSG_API_ERROR # MSG_NOT_FOUND(l.trimmed)
             /\ product' = None
             /\ nextLookup' = nextLookup
             /\ lookups' \subseteq lookups]_vars

(* C12. The primary lookup is a state machine over idle, loading, success  *)
(* and error: at most one of loading = true, error non-null, product       *)
(* non-null holds in every reachable state.                                *)
C12_OneOfLoadingErrorProduct ==
  /\ ~(loading /\ error # Null)
  /\ ~(loading /\ IsSome(product))
  /\ ~(error # Null /\ IsSome(product))

(* C13. A product record is discarded on the next search: starting any     *)
(* lookup sets the displayed product to null and, for a non-blank code,    *)
(* empties both alternatives lists and both list errors; a product object  *)
(* is displayed only by the step in which the lookup that returned it      *)
(* settles, so a discarded product is not displayed again unless a later   *)
(* response returns it.                                                    *)
C13_DiscardedOnNextSearch ==
  /\ [](IsSome(product) => \A l \in lookups : l.id # Val(product).obj)
  /\ [][/\ LookupStarts => product' = None
        /\ nextLookup' # nextLookup =>
             /\ healthyAlternatives' = <<>>
             /\ sustainableAlternatives' = <<>>
             /\ healthyError' = Null
             /\ sustainableError' = Null
        /\ (IsSome(product') /\ product' # product) =>
             \E l \in lookups :
               LookupSettles(l) /\ Val(product').obj = l.id]_vars

(* A lookup has just started while a product with alternatives was shown *)
C13_Witness ==
  /\ ~IsSome(product)
  /\ IsSome(effectDep)
  /\ loading
  /\ healthyAlternatives = <<>>
  /\ sustainableAlternatives = <<>>
  /\ \E f \in fetches : f.isActive /\ f.product = Val(effectDep)

----------------------------------------------------------------------------
(* Properties of the BarcodeScanner, checked under SpecScanner *)

Holding == {s \in sessions : s.phase = "active"}

(* A step in which startScanning calls decodeFromVideoDevice *)
SessionStarts == nextSession' # nextSession

(* C14. Single decode session: over every interleaving of start clicks,    *)
(* start completion and decode callbacks, invoking startScanning while a   *)
(* decode session is active starts no second session, so at most one       *)
(* decode session holds the camera at any time.                            *)
C14_SingleDecodeSession ==
  /\ [](Cardinality(Holding) <= 1)
  /\ [][(Holding # {}) => ~SessionStarts]_vars

(* C15. For each decode session, a successful decode with non-empty text   *)
(* invokes onScan exactly once with that text and then stops scanning: no  *)
(* session holds the camera and isScanning is false afterward, and         *)
(* isScanning stays false until a start completes for a session that has   *)
(* not been stopped, whatever the order of the decode callback and the     *)
(* start-completion callback.                                              *)
C15_DecodeOnceThenStopped ==
  /\ [](\A i, j \in 1..Len(scanned) :
          scanned[i].session = scanned[j].session => i = j)
  /\ [][\A s \in sessions, o \in DecodeOutcomes :
          (decodeCallback(s, o.result, o.err)
             /\ IsSome(o.result) /\ Val(o.result) # <<>>) =>
            /\ scanned' = Append(scanned,
                                 [session |-> s.id, text |-> Val(o.result)])
            /\ \A t \in sessions' : t.phase # "active"
            /\ videoRef => ~isScanning']_vars
  /\ [][(~isScanning /\ isScanning') =>
          \E s \in sessions : s.phase = "active" /\ startCompleted(s)]_vars

(* C16. Camera release: after an explicit stop and after component         *)
(* teardown no decode session holds the camera until the user starts a new *)
(* session, including when teardown or stop happens while a session start  *)
(* is still pending.                                                       *)
C16_CameraReleased ==
  released => Holding = {}

(* C17. A decode callback reporting a not-found condition never sets the   *)
(* scanner's error and never stops the session; the scan-failed message is *)
(* set only by a decode callback whose error is not a not-found condition, *)
(* and every such callback sets it.                                        *)
C17_NotFoundIsNoError ==
  [][/\ \A s \in sessions :
          decodeCallback(s, None, "NotFoundException") =>
            /\ scannerError' = scannerError
            /\ isScanning' = isScanning
            /\ sessions' = sessions
            /\ scanned' = scanned
     /\ \A s \in sessions, o \in DecodeOutcomes :
          (decodeCallback(s, o.result, o.err)
             /\ o.err \notin {"none", "NotFoundException"} /\ videoRef) =>
            scannerError' = MSG_SCAN_FAILED
     /\ (scannerError' = MSG_SCAN_FAILED /\ scannerError # MSG_SCAN_FAILED) =>
          \E s \in sessions, o \in DecodeOutcomes :
            /\ o.err \notin {"none", "NotFoundException"}
            /\ decodeCallback(s, o.result, o.err)]_vars

(* A running session has just reported that no barcode is in the frame *)
C17_Witness ==
  /\ lastDecode.err = "NotFoundException"
  /\ Holding # {}
  /\ isScanning
  /\ scannerError = Null

----------------------------------------------------------------------------
(* Properties of the pure checks, checked under SpecChecks *)

(* Two strings that differ at most in the case of their letters *)
SameIgnoringCase(a, b) ==
  /\ Len(a) = Len(b)
  /\ \A i \in 1..Len(a) :
       \/ a[i] = b[i]
       \/ \E k \in 1..26 : {a[i], b[i]} = {LowerChars[k], UpperChars[k]}

ContainsIgnoringCase(str, fragment) ==
  \E i \in 1..(Len(str) - Len(fragment) + 1) :
    SameIgnoringCase(SubSeq(str, i, i + Len(fragment) - 1), fragment)

Whitespace(str) == \A i \in 1..Len(str) : str[i] \in {" ", "\t", "\n"}

(* `str` is `word`, in any case, surrounded by whitespace only *)
TrimsTo(str, word) ==
  \E i \in 1..(Len(str) + 1) :
    LET j == i + Len(word) - 1
    IN  /\ j <= Len(str)
        /\ SameIgnoringCase(SubSeq(str, i, j), word)
        /\ Whitespace(SubSeq(str, 1, i - 1))
        /\ Whitespace(SubSeq(str, j + 1, Len(str)))

InvalidGradeWords ==
  { <<>>,
    <<"U","N","K","N","O","W","N">>,
    <<"N","O","T","-","A","P","P","L","I","C","A","B","L","E">>,
    <<"N","O","T","_","A","P","P","L","I","C","A","B","L","E">> }

InvalidGrade(grade) ==
  \/ ~IsSome(grade)
  \/ \E word \in InvalidGradeWords : TrimsTo(Val(grade), word)

(* The examples of the specification *)
GradeExamples ==
  { [grade |-> <<>>, valid |-> FALSE],
    [grade |-> <<"u","n","k","n","o","w","n">>, valid |-> FALSE],
    [grade |-> <<"N","o","t","-","A","p","p","l","i","c","a","b","l","e">>,
     valid |-> FALSE],
    [grade |-> <<"N","O","T","_","A","P","P","L","I","C","A","B","L","E">>,
     valid |-> FALSE],
    [grade |-> <<"a">>, valid |-> TRUE],
    [grade |-> <<"E">>, valid |-> TRUE] }

(* C18. Grade validity check: for every optional grade string, the result  *)
(* is false exactly when the grade is absent or its trimmed, upper-cased   *)
(* value is empty, UNKNOWN, NOT-APPLICABLE or NOT_APPLICABLE, and true     *)
(* otherwise, in whatever case the grade is written.                       *)
C18_GradeValidity ==
  (checkInput.kind = "grade" /\ IsSome(checkResult)) =>
    /\ Val(checkResult) = ~InvalidGrade(checkInput.grade)
    /\ \A e \in GradeExamples :
         checkInput.grade = Some(e.grade) => Val(checkResult) = e.valid

(* A padded, mixed-case NOT-APPLICABLE has been found invalid *)
C18_Witness ==
  /\ checkInput.kind = "grade"
  /\ checkInput.grade =
       Some(<<" ", "N","o","t","-","A","p","p","l","i","c","a","b","l","e",
              "\t">>)
  /\ checkResult = Some(FALSE)

TagsOf(list) ==
  IF IsSome(list) THEN {Val(list)[i] : i \in 1..Len(Val(list))} ELSE {}

RegionalCountryTag(tag) ==
  \E i \in 1..Len(SWISS_COUNTRY_TAGS) :
    SameIgnoringCase(tag, SWISS_COUNTRY_TAGS[i])

(* C19, as stated. Regional distribution check: the result is true exactly *)
(* when some country tag, compared case-insensitively, is one of the fixed *)
(* regional identifiers, or some purchase-place tag equals the fixed       *)
(* regional identifier; only the set of tags matters, not their order, and *)
(* a missing list counts as empty.                                         *)
C19_RegionalCheck ==
  (checkInput.kind = "switzerland" /\ IsSome(checkResult)) =>
    Val(checkResult) =
      \/ \E tag \in TagsOf(checkInput.item.countries_tags) :
           RegionalCountryTag(tag)
      \/ \E tag \in TagsOf(checkInput.item.purchase_places_tags) :
           tag = SWITZERLAND

(* C19, amended. The purchase-place tags are compared case-insensitively   *)
(* as well: the result is true exactly when some country tag, ignoring     *)
(* case, is one of the fixed regional identifiers, or some purchase-place  *)
(* tag, ignoring case, is the fixed regional identifier.                   *)
C19_RegionalCheckIgnoringCase ==
  (checkInput.kind = "switzerland" /\ IsSome(checkResult)) =>
    /\ Val(checkResult) =
         \/ \E tag \in TagsOf(checkInput.item.countries_tags) :
              RegionalCountryTag(tag)
         \/ \E tag \in TagsOf(checkInput.item.purchase_places_tags) :
              SameIgnoringCase(tag, SWITZERLAND)
    /\ (checkInput.item.countries_tags =
          Some(<< <<"d","e",":","s","c","h","w","e","i","z">> >>))
         => Val(checkResult)
    /\ (/\ checkInput.item.countries_tags =
             Some(<< <<"e","n",":","f","r","a","n","c","e">> >>)
        /\ checkInput.item.purchase_places_tags = None)
         => ~Val(checkResult)

(* A product whose only regional mark is a capitalised purchase-place tag, *)
(* listed after another tag, has been found distributed in the region      *)
C19_Witness ==
  /\ checkInput.kind = "switzerland"
  /\ checkInput.item.countries_tags = None
  /\ checkInput.item.purchase_places_tags =
       Some(<< <<"z","u","r","i","c","h">>,
               <<"S","w","i","t","z","e","r","l","a","n","d">> >>)
  /\ checkResult = Some(TRUE)

(* The part of a tag after its last colon: the whole tag without a colon *)
AfterLastColon(tag) ==
  LET colons == {i \in 1..Len(tag) : tag[i] = ":"}
      last == IF colons = {} THEN 0
              ELSE CHOOSE i \in colons : \A j \in colons : j <= i
  IN  SubSeq(tag, last + 1, Len(tag))

AllowedStoreTag(tag) ==
  \E i \in 1..Len(COOP_STORE_TAGS) :
    SameIgnoringCase(AfterLastColon(tag), COOP_STORE_TAGS[i])

(* The comma-separated entries of a text *)
Entries(text) ==
  { SubSeq(text, b[1], b[2]) :
      b \in { c \in (1..(Len(text) + 1)) \X (0..Len(text)) :
                /\ c[1] <= c[2] + 1
                /\ \A k \in c[1]..c[2] : text[k] # ","
                /\ c[1] = 1 \/ text[c[1] - 1] = ","
                /\ c[2] = Len(text) \/ text[c[2] + 1] = "," } }

(* C20. Retailer availability check: the result is true exactly when some  *)
(* store tag, lower-cased and with everything up to its last colon         *)
(* removed, is in the fixed retailer allow-list, or else when some         *)
(* comma-separated, trimmed entry of the lower-cased free-text store field *)
(* contains the target brand fragment; it is false when neither holds.     *)
C20_RetailerCheck ==
  (checkInput.kind = "coop" /\ IsSome(checkResult)) =>
    /\ Val(checkResult) =
         \/ \E tag \in TagsOf(checkInput.item.stores_tags) :
              AllowedStoreTag(tag)
         \/ /\ IsSome(checkInput.item.stores)
            /\ \E entry \in Entries(Val(checkInput.item.stores)) :
                 ContainsIgnoringCase(entry, COOP)
    /\ (checkInput.item.stores_tags =
          Some(<< <<"c","h",":","c","o","o","p","-","p","r","o","n","t","o">> >>))
         => Val(checkResult)
    /\ (/\ checkInput.item.stores_tags = None
        /\ checkInput.item.stores =
             Some(<<"C","o","o","p",","," ","M","a","n","o","r">>))
         => Val(checkResult)
    /\ (/\ checkInput.item.stores_tags = None
        /\ checkInput.item.stores = Some(<<"M","i","g","r","o","s">>))
         => ~Val(checkResult)

(* A product without allowed store tag has been found available through    *)
(* its free-text store field                                               *)
C20_Witness ==
  /\ checkInput.kind = "coop"
  /\ checkInput.item.stores_tags = Some(<< <<"c","o","o","p",":","x">> >>)
  /\ checkInput.item.stores =
       Some(<<"M","a","n","o","r",","," "," ","m","i","n","i","C","O","O","P"," ">>)
  /\ checkResult = Some(TRUE)

----------------------------------------------------------------------------
(* Further properties of the search component, checked under Spec *)

(* The displayed product, if any *)
Displayed == {product[i] : i \in 1..Len(product)}

(* A step in which the effect runs for a newly displayed product *)
EffectRunsFor(p) ==
  product = Some(p) /\ effectDep # product /\ effectDep' = product

LastTag(p) == Val(p.categories_tags)[Len(Val(p.categories_tags))]

(* C21. Each change of the displayed product to a product with a category *)
(* tag issues exactly one pair of search queries, one sorted by nutrition  *)
(* score and one by eco score, both scoped to the last element of the      *)
(* product's category-tag list and each requesting at most 5 results; no   *)
(* pair is issued in any other step.                                       *)
C21_OnePairPerProduct ==
  /\ [][\A p \in Displayed :
          (EffectRunsFor(p) /\ ~NoCategoryTag(p)) =>
            /\ nextFetch' = nextFetch + 1
            /\ \E f \in fetches' :
                 /\ {g \in fetches' : g.id \notin {h.id : h \in fetches}} = {f}
                 /\ f.id = nextFetch
                 /\ f.product = p
                 /\ f.healthyQuery.sort_by = "nutriscore_score"
                 /\ f.sustainableQuery.sort_by = "ecoscore_score"
                 /\ f.healthyQuery.base.categories_tags = LastTag(p)
                 /\ f.sustainableQuery.base.categories_tags = LastTag(p)
                 /\ f.healthyQuery.base.page_size <= 5
                 /\ f.sustainableQuery.base.page_size <= 5]_vars
  /\ [][nextFetch' # nextFetch =>
          \E p \in Displayed :
            EffectRunsFor(p) /\ ~NoCategoryTag(p)]_vars
  /\ [][{g.id : g \in fetches'}
          \subseteq {g.id : g \in fetches} \cup {nextFetch}]_vars
  /\ [](~Settled => ENABLED RunEffect)

(* The pair of queries for a product with two category tags is in flight *)
C21_Witness ==
  /\ Settled
  /\ IsSome(product)
  /\ IsSome(Val(product).categories_tags)
  /\ Len(Val(Val(product).categories_tags)) = 2
  /\ \E f \in fetches : f.isActive /\ f.product = Val(product)

(* The healthy, resp. sustainable, section shows products *)
ShowsHealthy ==
  /\ IsSome(product)
  /\ ~healthyLoading
  /\ healthyError = Null
  /\ healthyAlternatives # <<>>

ShowsSustainable ==
  /\ IsSome(product)
  /\ ~sustainableLoading
  /\ sustainableError = Null
  /\ sustainableAlternatives # <<>>

(* The lists were last written by the fetch issued for the displayed       *)
(* product                                                                 *)
FetchedForDisplayed ==
  IsSome(product) /\ alternativesFor = Some(Val(product).obj)

(* C22. Whenever an alternatives section actually shows products (a        *)
(* product is displayed, that list's loading flag is false, its error is   *)
(* null and the list is non-empty), the list is the filtered response of   *)
(* the query issued for the currently displayed product, never data        *)
(* fetched for an earlier product.                                         *)
C22_ShownListIsCurrent ==
  /\ ShowsHealthy =>
       /\ FetchedForDisplayed
       /\ \E r \in ResultLists :
            healthyAlternatives =
              ExpectedFor[r][Val(product).code]["nutrition"]
  /\ ShowsSustainable =>
       /\ FetchedForDisplayed
       /\ \E r \in ResultLists :
            sustainableAlternatives =
              ExpectedFor[r][Val(product).code]["eco"]

(* The lookup l is the one that was started last *)
LastStarted(l) == l.id = nextLookup - 1

(* The state the lookup l leaves when it alone decides the outcome *)
OutcomeOf(l, resp) ==
  IF resp.throws \/ resp.error \/ NoUsableProduct(resp)
    THEN /\ product' = None
         /\ error' = (IF resp.throws \/ resp.error
                        THEN MSG_API_ERROR
                        ELSE MSG_NOT_FOUND(l.trimmed))
         /\ trim(barcode') = l.trimmed
    ELSE /\ IsSome(product')
         /\ Val(product').obj = l.id
         /\ Val(product').code = Val(Val(resp.data).product).code
         /\ error' = Null
         /\ barcode' = <<>>

(* C23. When two lookups are in flight at once, the product, error and     *)
(* barcode state left after both have resolved is the outcome of the       *)
(* lookup that was started last, regardless of the order in which the      *)
(* responses arrive: when the last response is that of the lookup started  *)
(* last, the state is its outcome, and when it is that of an earlier       *)
(* lookup, it changes nothing.                                             *)
C23_LastStartedWins ==
  [][\A l \in lookups :
       (LookupSettles(l) /\ lookups = {l}) =>
         IF LastStarted(l)
           THEN \A resp \in LookupResponses :
                  lookupSettled(l, resp) => OutcomeOf(l, resp)
           ELSE UNCHANGED <<product, error, barcode>>]_vars

(* C24. In every reachable state, the primary loading flag is true exactly *)
(* when at least one product lookup request is in flight.                  *)
C24_LoadingIffInFlight ==
  loading <=> (lookups # {})

C26_ListStateMachine ==
  /\ [](/\ healthyError # Null =>
             (healthyAlternatives = <<>> /\ ~healthyLoading)
        /\ sustainableError # Null =>
             (sustainableAlternatives = <<>> /\ ~sustainableLoading))
  /\ [][\A f \in fetches :
          (Settles(f) /\ f.isActive) =>
            /\ healthyAlternatives' # <<>> => healthyError' = Null
            /\ sustainableAlternatives' # <<>> =>
                 sustainableError' = Null]_vars

(* One list ended with an error while the other shows products *)
C26_Witness ==
  /\ Settled
  /\ IsSome(product)
  /\ healthyError # Null
  /\ healthyAlternatives = <<>>
  /\ ~healthyLoading
  /\ sustainableError = Null
  /\ sustainableAlternatives # <<>>

----------------------------------------------------------------------------
(* Progress, checked under SpecLookupsResolve and SpecSearchesResolve *)

InFlight(id) == \E l \in lookups : l.id = id

(* C27. Lookup termination: provided every request to the product database *)
(* eventually resolves or throws, every started lookup eventually finishes *)
(* and, once no lookup is in flight, the loading flag is false and exactly *)
(* one of product non-null or error non-null holds.                        *)
C27_LookupTermination ==
  /\ \A id \in 1..MaxLookups : InFlight(id) ~> ~InFlight(id)
  /\ []((lookups = {} /\ nextLookup > 1) =>
          /\ ~loading
          /\ IsSome(product) # (error # Null))

(* The list is the filtered response of the queries issued for the         *)
(* displayed product                                                       *)
FilteredForDisplayed(list, grade) ==
  /\ FetchedForDisplayed
  /\ \E r \in ResultLists \cup {<<>>} :
       list = ExpectedFor[r][Val(product).code][grade]

(* Both lists have stopped loading, the effect of the commit has run, and *)
(* each list of a displayed product has an error or holds the filtered    *)
(* results for that product                                               *)
ListsDone ==
  /\ ~healthyLoading
  /\ ~sustainableLoading
  /\ Settled
  /\ IsSome(product) =>
       /\ \/ healthyError # Null
          \/ FilteredForDisplayed(healthyAlternatives, "nutrition")
       /\ \/ sustainableError # Null
          \/ FilteredForDisplayed(sustainableAlternatives, "eco")

(* C28. Suggestion progress: provided search queries eventually resolve or *)
(* throw, whenever a suggestion list is loading, whatever product changes  *)
(* and superseded fetches happen on the way, both loading flags eventually *)
(* become false with each list of the displayed product ending either with *)
(* an error or with the filtered results for that product.                 *)
C28_SuggestionProgress ==
  (healthyLoading \/ sustainableLoading) ~> ListsDone

(* After a superseded fetch has resolved, the lists of the displayed       *)
(* product have stopped loading and show its results                       *)
C28_Witness ==
  /\ supersededSettled
  /\ Settled
  /\ IsSome(product)
  /\ ~healthyLoading
  /\ ~sustainableLoading
  /\ fetches = {}
  /\ healthyError = Null
  /\ FilteredForDisplayed(healthyAlternatives, "nutrition")
  /\ healthyAlternatives # <<>>

====
